---- MODULE Spec2Model ----
(***************************************************************************)
(* The transaction engine of PyCoin (lib/TransactionManager/transaction.py) *)
(* as a state machine: Transaction objects, the Ledger (db.DB) they read    *)
(* and write, coin selection, consolidation, hashing, signing, the binary   *)
(* codec and verification.                                                  *)
(***************************************************************************)
EXTENDS Integers, Sequences, FiniteSets, TLC

\* ------------------------------------------------------------------ bounds

\* Transaction objects the callers construct.
MaxTx == 2
\* Outputs one Transaction may hold before callers stop calling add_output.
MaxOutputs == 4
\* Coinbase transactions that funded the Ledger before the run.
MaxCoinbase == 3
\* Calls the callers make on the constructed Transactions.
MaxCalls == 3
\* Calls made on two Transactions that race for the same Outputs.
MaxRaceCalls == 4
\* Inputs of a transaction decoded from a peer's buffer.
MaxWireInputs == 2
\* Inputs and Outputs of a Transaction handed to the codec.
MaxCodecInputs == 2
MaxCodecOutputs == 2

TxIds == 1..MaxTx

\* Key pairs (RSA private keys); PublicKey is RSA's publickey().
Keys == {"K1", "K2"}
PublicKey(k) == <<"pub", k>>
\* KeyStore.getPrivateKey(): the process-wide default key pair.
DefaultKey == "K1"

\* Values callers ask to pay, and values minted by coinbase transactions.
TargetValues == {30, 40}
\* The values of the coinbase Outputs, in the order they may be minted.
Funding == <<30, 50, 300, 70>>
CoinbaseHeight == 1

\* ------------------------------------------------------------------ crypto

\* SHA256.new(m).digest(): collision-free, so modelled as a tagged copy of m.
Sha256(m) == <<"sha256", m>>
\* struct.pack('I', 0) * 8: the 32 zero bytes that mark a coinbase input.
ZeroHash == <<"zero">>
\* self.hash = None / o.transaction = None
NoHash == <<>>
\* i.signature = None
NoSig == [signer |-> <<>>, msg |-> NoHash]
\* hasattr(inp, 'coinbase') is false
NoCoinbase == -1

\* PKCS1_v1_5.new(owner).sign(SHA256.new(trans_hash)): deterministic.
Sign(owner, trans_hash) == [signer |-> PublicKey(owner), msg |-> Sha256(trans_hash)]

\* Transaction.check_sig
check_sig(signature, pubKey, trans) ==
    /\ signature.signer = pubKey
    /\ signature.msg = Sha256(trans)

\* ------------------------------------------------------------------ entities

\* Transaction.Input.__init__
Input(value, prev, n, owner) ==
    [value |-> value, prev |-> prev, n |-> n, signature |-> NoSig,
     owner |-> owner, coinbase |-> NoCoinbase]

\* Transaction.Output.__init__
Output(value, pubKey) ==
    [value |-> value, pubKey |-> pubKey, transaction |-> NoHash, n |-> -1]

\* Transaction.__init__
Transaction(owner, callback) ==
    [input |-> <<>>, output |-> <<>>, hash |-> NoHash,
     owner |-> owner, callback |-> callback]

\* ------------------------------------------------------------------ codec
\* A buffer is a sequence of fields <<format, payload>>; a field's width in
\* bytes is fixed by its format, and a read at a byte offset finds the field
\* that starts there.

\* struct 'B': one unsigned byte
MaxU8 == 255
\* struct 'I': four bytes, unsigned, 0 .. 65536 * 65536 - 1
Half32 == 65536
FitsU32(v) == v >= 0 /\ v \div Half32 < Half32
\* Transaction.Input.PACKED_SIZE
INPUT_PACKED_SIZE == 290
\* Transaction.Output.PACKED_SIZE
OUTPUT_PACKED_SIZE == 455
HashBytes == 32
SigBytes == 256
KeyBytes == 450

Width(field) ==
    CASE field[1] = "B" -> 1
      [] field[1] = "I" -> 4
      [] field[1] = "h32" -> HashBytes
      [] field[1] = "sig" -> SigBytes
      [] field[1] = "key" -> KeyBytes

RECURSIVE BufLen(_)
BufLen(buf) == IF buf = <<>> THEN 0 ELSE Width(Head(buf)) + BufLen(Tail(buf))

\* Transaction.Input.pack raises unless every field fits its format.
InputPackable(inp, withSig) ==
    /\ inp.value \in 0..MaxU8
    /\ inp.n \in 0..MaxU8
    /\ withSig => inp.signature # NoSig
    /\ inp.coinbase # NoCoinbase => FitsU32(inp.coinbase)

\* Transaction.Input.pack
InputPack(inp, withSig) ==
    <<  <<"B", inp.value>>, <<"h32", inp.prev>>, <<"B", inp.n>> >>
    \o (IF withSig THEN << <<"sig", inp.signature>> >> ELSE <<>>)
    \o (IF inp.coinbase # NoCoinbase THEN << <<"I", inp.coinbase>> >> ELSE <<>>)

\* Transaction.Output.pack raises unless every field fits its format.
OutputPackable(o) ==
    /\ FitsU32(o.value)
    /\ o.n \in 0..MaxU8

\* Transaction.Output.pack
OutputPack(o) ==
    << <<"I", o.value>>, <<"B", o.n>>, <<"key", o.pubKey>> >>

\* Transaction.pack_inputs
RECURSIVE pack_inputs(_, _)
pack_inputs(inputs, withSig) ==
    IF inputs = <<>> THEN <<>>
    ELSE InputPack(Head(inputs), withSig) \o pack_inputs(Tail(inputs), withSig)

\* Transaction.pack_outputs
RECURSIVE pack_outputs(_)
pack_outputs(outputs) ==
    IF outputs = <<>> THEN <<>>
    ELSE OutputPack(Head(outputs)) \o pack_outputs(Tail(outputs))

\* Transaction.pack(withSig, withHash=False) raises when a field does not fit.
Packable(t, withSig) ==
    /\ Len(t.input) <= MaxU8
    /\ Len(t.output) <= MaxU8
    /\ \A k \in 1..Len(t.input) : InputPackable(t.input[k], withSig)
    /\ \A k \in 1..Len(t.output) : OutputPackable(t.output[k])

\* Transaction.pack(withSig, withHash=False)
pack(t, withSig) ==
    << <<"B", Len(t.input)>> >> \o pack_inputs(t.input, withSig)
    \o << <<"B", Len(t.output)>> >> \o pack_outputs(t.output)

\* Bytes that are not those of a field of the expected format decode to a
\* value no packed field carries.
GarbledInt == -2
Garbled(fmt) ==
    CASE fmt \in {"B", "I"} -> GarbledInt
      [] fmt = "sig" -> [signer |-> <<"garbled">>, msg |-> <<"garbled">>]
      [] OTHER -> <<"garbled">>

\* The field that starts at byte `off` of buf (<<>> when none starts there).
RECURSIVE FieldAt(_, _)
FieldAt(buf, off) ==
    IF buf = <<>> THEN <<>>
    ELSE IF off = 0 THEN Head(buf)
    ELSE IF off < Width(Head(buf)) THEN <<>>
    ELSE FieldAt(Tail(buf), off - Width(Head(buf)))

\* struct.unpack_from(fmt, buf, off)[0] and the slices buf[off:off+len]
Read(buf, off, fmt) ==
    LET f == FieldAt(buf, off)
    IN IF f # <<>> /\ f[1] = fmt THEN f[2] ELSE Garbled(fmt)

\* Transaction.Input.unpack: [ok, inp]; ok is FALSE when it raises (a read
\* past the end of the buffer, or a previous hash that is not 32 bytes).
InputUnpack(buf, offset, withSig) ==
    LET sigOff == offset + 1 + 32 + 1
        endOff == IF withSig THEN sigOff + 256 ELSE sigOff
        Signed(i) ==
            IF withSig
            THEN [i EXCEPT !.signature = Read(buf, sigOff, "sig")]
            ELSE i
        WithCoinbase(i, coinbase) ==
            IF coinbase
            THEN [i EXCEPT !.coinbase = Read(buf, endOff, "I")]
            ELSE i
        Built(value, prev, n, len) ==
            [ok |-> /\ sigOff <= len
                    /\ (prev = ZeroHash) => endOff + 4 <= len,
             inp |-> WithCoinbase(Signed(Input(value, prev, n, DefaultKey)),
                                  prev = ZeroHash)]
    IN Built(Read(buf, offset, "B"), Read(buf, offset + 1, "h32"),
             Read(buf, offset + 1 + 32, "B"), BufLen(buf))

\* Transaction.Output.unpack: [ok, out]; ok is FALSE when it raises (a read
\* past the end, or RSA.importKey on bytes that are no exported key).
OutputUnpack(buf, offset) ==
    LET Built(value, n, key) ==
            [ok |-> offset + 4 + 1 <= BufLen(buf) /\ key # Garbled("key"),
             out |-> [Output(value, key) EXCEPT !.n = n]]
    IN Built(Read(buf, offset, "I"), Read(buf, offset + 4, "B"),
             Read(buf, offset + 4 + 1, "key"))

\* The input loop of Transaction.unpack: [ok, input, offset].
RECURSIVE unpack_inputs(_, _, _, _)
unpack_inputs(buf, offset, count, withSig) ==
    LET Joined(r, rest) ==
            [ok |-> rest.ok, input |-> <<r.inp>> \o rest.input,
             offset |-> rest.offset]
        Read1(r) ==
            IF ~r.ok THEN [ok |-> FALSE, input |-> <<>>, offset |-> offset]
            ELSE Joined(r, unpack_inputs(
                               buf,
                               offset + INPUT_PACKED_SIZE
                                 - (IF ~withSig THEN 256 ELSE 0)
                                 + (IF r.inp.coinbase # NoCoinbase THEN 4 ELSE 0),
                               count - 1, withSig))
    IN IF count = 0 THEN [ok |-> TRUE, input |-> <<>>, offset |-> offset]
       ELSE Read1(InputUnpack(buf, offset, withSig))

\* The output loop of Transaction.unpack: [ok, output].
RECURSIVE unpack_outputs(_, _, _)
unpack_outputs(buf, offset, count) ==
    LET Joined(r, rest) ==
            [ok |-> rest.ok, output |-> <<r.out>> \o rest.output]
        Read1(r) ==
            IF ~r.ok THEN [ok |-> FALSE, output |-> <<>>]
            ELSE Joined(r, unpack_outputs(buf, offset + OUTPUT_PACKED_SIZE,
                                          count - 1))
    IN IF count = 0 THEN [ok |-> TRUE, output |-> <<>>]
       ELSE Read1(OutputUnpack(buf, offset))

\* Transaction.unpack: [ok, t]; t is the object as the call leaves it, also
\* when it raises (ok = FALSE) part way.
unpack(t, buf, withSig) ==
    LET Outputs(ins, outs) ==
            [ok |-> outs.ok,
             t |-> [t EXCEPT !.input = ins.input, !.output = outs.output]]
        CountedOut(ins, num_out, len) ==
            IF ~ins.ok \/ ins.offset + 1 > len \/ num_out = GarbledInt
            THEN [ok |-> FALSE, t |-> [t EXCEPT !.input = ins.input]]
            ELSE Outputs(ins, unpack_outputs(buf, ins.offset + 1, num_out))
        Inputs(ins, len) ==
            CountedOut(ins, Read(buf, ins.offset, "B"), len)
        CountedIn(num_in, len) ==
            IF len < 1 \/ num_in = GarbledInt THEN [ok |-> FALSE, t |-> t]
            ELSE Inputs(unpack_inputs(buf, 1, num_in, withSig), len)
    IN CountedIn(Read(buf, 0, "B"), BufLen(buf))

\* ------------------------------------------------------------------ ledger
\* db.DB: the unspent Outputs, in the order the Ledger returns them, one per
\* (transaction hash, index), and the hashes of the stored transactions.

SameOutput(a, b) == a.transaction = b.transaction /\ a.n = b.n

HasOutput(outs, o) == \E k \in 1..Len(outs) : SameOutput(outs[k], o)

\* DB.getUnspentOutputs(pubKey): the unspent Outputs paid to pubKey
getUnspentOutputsOf(outs, pubKey) ==
    SelectSeq(outs, LAMBDA o : o.pubKey = pubKey)

\* DB.removeUnspentOutput
removeUnspentOutput(outs, o) ==
    SelectSeq(outs, LAMBDA x : ~SameOutput(x, o))

\* DB.insertTransaction, the unspent set: the Outputs of t become unspent.
RECURSIVE insertOutputs(_, _)
insertOutputs(outs, new) ==
    IF new = <<>> THEN outs
    ELSE insertOutputs(IF HasOutput(outs, Head(new)) THEN outs
                       ELSE Append(outs, Head(new)),
                       Tail(new))

\* ------------------------------------------------------------------ hashing

\* Transaction.hash_transaction: [ok, t, digest]. The hash object is created
\* and stored before pack() runs, so a pack() that raises leaves the hash of
\* no bytes behind.
hash_transaction(t) ==
    LET Hashed(digest) ==
            [ok |-> TRUE, t |-> [t EXCEPT !.hash = digest], digest |-> digest]
    IN IF t.hash # NoHash THEN [ok |-> TRUE, t |-> t, digest |-> t.hash]
       ELSE IF Packable(t, FALSE)
            THEN Hashed(Sha256(pack(t, FALSE)))
            ELSE [ok |-> FALSE, t |-> [t EXCEPT !.hash = Sha256(<<>>)],
                  digest |-> NoHash]

\* Transaction.sign_inputs with Input.apply_signature
sign_inputs(t) ==
    [t EXCEPT !.input = [k \in 1..Len(t.input) |->
        [t.input[k] EXCEPT !.signature = Sign(t.input[k].owner, t.input[k].prev)]]]

\* add_hash_to_outputs that misses the last Output, the change Output of the
\* last add_output: what C14 rules out.
add_hash_to_outputs_but_last(t) ==
    LET Stamped(h) ==
            IF ~h.ok THEN [ok |-> FALSE, t |-> h.t]
            ELSE [ok |-> TRUE,
                  t |-> [h.t EXCEPT !.output = [k \in 1..Len(t.output) |->
                            IF k = Len(t.output) THEN t.output[k]
                            ELSE [t.output[k] EXCEPT !.transaction = h.digest]]]]
    IN IF t.output = <<>> THEN [ok |-> TRUE, t |-> t]
       ELSE Stamped(hash_transaction(t))

\* Transaction.add_hash_to_outputs: [ok, t]
add_hash_to_outputs(t) ==
    LET Stamped(h) ==
            IF ~h.ok THEN [ok |-> FALSE, t |-> h.t]
            ELSE [ok |-> TRUE,
                  t |-> [h.t EXCEPT !.output = [k \in 1..Len(t.output) |->
                            [t.output[k] EXCEPT !.transaction = h.digest]]]]
    IN IF t.output = <<>> THEN [ok |-> TRUE, t |-> t]
       ELSE Stamped(hash_transaction(t))

\* ------------------------------------------------------------------ verify

\* Transaction.verify's loops without line 230, the removal of the matched
\* Output: what C1 rules out.
RECURSIVE VerifyScanKeep(_, _, _, _, _, _)
VerifyScanKeep(t, outs, o, i, cur, noSigRaises) ==
    IF o > Len(outs) THEN [unspent |-> cur, result |-> "accepted"]
    ELSE IF i > Len(t.input) THEN VerifyScanKeep(t, outs, o + 1, 1, cur, noSigRaises)
    ELSE IF t.input[i].prev = outs[o].transaction /\ t.input[i].n = outs[o].n
         THEN IF t.input[i].signature = NoSig /\ noSigRaises
              THEN [unspent |-> cur, result |-> "raised"]
              ELSE IF ~check_sig(t.input[i].signature, outs[o].pubKey,
                                 outs[o].transaction)
              THEN [unspent |-> cur, result |-> "rejected"]
              ELSE VerifyScanKeep(t, outs, o, i + 1, cur, noSigRaises)
         ELSE VerifyScanKeep(t, outs, o, i + 1, cur, noSigRaises)

\* Transaction.verify's loops followed by a test that every Input matched
\* an unspent Output: what C15 rules out.
RECURSIVE VerifyScanStrict(_, _, _, _, _, _)
VerifyScanStrict(t, outs, o, i, cur, noSigRaises) ==
    IF o > Len(outs)
    THEN [unspent |-> cur,
          result |-> IF \A k \in 1..Len(t.input) : \E j \in 1..Len(outs) :
                            t.input[k].prev = outs[j].transaction
                            /\ t.input[k].n = outs[j].n
                     THEN "accepted" ELSE "rejected"]
    ELSE IF i > Len(t.input)
    THEN VerifyScanStrict(t, outs, o + 1, 1, cur, noSigRaises)
    ELSE IF t.input[i].prev = outs[o].transaction /\ t.input[i].n = outs[o].n
         THEN IF t.input[i].signature = NoSig /\ noSigRaises
              THEN [unspent |-> cur, result |-> "raised"]
              ELSE IF ~check_sig(t.input[i].signature, outs[o].pubKey,
                                 outs[o].transaction)
              THEN [unspent |-> cur, result |-> "rejected"]
              ELSE VerifyScanStrict(t, outs, o, i + 1,
                                    removeUnspentOutput(cur, outs[o]), noSigRaises)
         ELSE VerifyScanStrict(t, outs, o, i + 1, cur, noSigRaises)

\* The loops of Transaction.verify over the snapshot `outs` of the unspent
\* Outputs, at Output o and Input i, with `cur` the unspent set so far.
RECURSIVE VerifyScan(_, _, _, _, _, _)
VerifyScan(t, outs, o, i, cur, noSigRaises) ==
    IF o > Len(outs) THEN [unspent |-> cur, result |-> "accepted"]
    ELSE IF i > Len(t.input) THEN VerifyScan(t, outs, o + 1, 1, cur, noSigRaises)
    ELSE IF t.input[i].prev = outs[o].transaction /\ t.input[i].n = outs[o].n
         THEN IF t.input[i].signature = NoSig /\ noSigRaises
              THEN [unspent |-> cur, result |-> "raised"]
              ELSE IF ~check_sig(t.input[i].signature, outs[o].pubKey,
                                 outs[o].transaction)
              THEN [unspent |-> cur, result |-> "rejected"]
              ELSE VerifyScan(t, outs, o, i + 1,
                              removeUnspentOutput(cur, outs[o]), noSigRaises)
         ELSE VerifyScan(t, outs, o, i + 1, cur, noSigRaises)

\* Transaction.verify without the coinbase shortcut of lines 219-221: every
\* Transaction goes through the loops over the unspent Outputs.
verifyNoShortcut(t, outs, noSigRaises) ==
    LET Scanned(r) ==
            [unspent |-> r.unspent, result |-> r.result, queried |-> TRUE,
             callbacks |-> IF r.result = "accepted" /\ t.callback THEN 1 ELSE 0]
    IN IF t.input = <<>>
       THEN [unspent |-> outs, result |-> "raised", queried |-> FALSE,
             callbacks |-> 0]
       ELSE Scanned(VerifyScan(t, outs, 1, 1, outs, noSigRaises))

\* Transaction.verify: [unspent, result, queried, callbacks]. noSigRaises is
\* the crypto library's answer to a signature of None: raise, or not verified.
verify(t, outs, noSigRaises) ==
    LET Scanned(r) ==
            [unspent |-> r.unspent, result |-> r.result, queried |-> TRUE,
             callbacks |-> IF r.result = "accepted" /\ t.callback THEN 1 ELSE 0]
    IN IF t.input = <<>>
       THEN [unspent |-> outs, result |-> "raised", queried |-> FALSE,
             callbacks |-> 0]
       ELSE IF t.input[1].prev = ZeroHash
       THEN [unspent |-> outs, result |-> "accepted", queried |-> FALSE,
             callbacks |-> 0]
       ELSE Scanned(VerifyScan(t, outs, 1, 1, outs, noSigRaises))

\* ------------------------------------------------------------------ lifecycle

\* DB.insertTransaction on the Ledger L = [unspent, stored]
insertTransaction(L, t) ==
    [unspent |-> insertOutputs(L.unspent, t.output),
     stored |-> L.stored \cup {t.hash}]

\* Transaction.store_transaction
store_transaction(t, L) == insertTransaction(L, t)

\* P2PClient.broadcast_transaction: the peers are sent the packing with
\* signatures and with the hash, which computes the hash if it is unset.
broadcast_transaction(t) == hash_transaction(t).t

\* Transaction.broadcast whose failure undoes the signing: what C11 rules out.
broadcastUnsigns(t, sent) ==
    IF sent THEN broadcast_transaction(t)
    ELSE [t EXCEPT !.input = [k \in 1..Len(t.input) |->
             [t.input[k] EXCEPT !.signature = NoSig]]]

\* Transaction.broadcast: sent is FALSE when the client raises before it
\* packs (no port, no peer); the exception is logged and dropped.
broadcast(t, sent) == IF sent THEN broadcast_transaction(t) ELSE t

\* Transaction.finish_transaction(broadcast): the object and the Ledger as
\* the call leaves them; result is verify()'s, or "raised" when a step raises;
\* stage is the last step reached.
finish_transaction(t, L, bcast, sent) ==
    LET Verified(h, L1, t2, v) ==
            [t |-> t2, unspent |-> v.unspent, stored |-> L1.stored,
             result |-> v.result, stage |-> "verify", inserted |-> h.t.hash,
             atVerify |-> L1.unspent, queried |-> v.queried,
             callbacks |-> v.callbacks]
        Broadcast(h, L1, t2) ==
            Verified(h, L1, t2, verify(t2, L1.unspent, FALSE))
        Stored(h, L1) ==
            Broadcast(h, L1, IF bcast THEN broadcast(h.t, sent) ELSE h.t)
        Hashed(h) ==
            IF ~h.ok
            THEN [t |-> h.t, unspent |-> L.unspent, stored |-> L.stored,
                  result |-> "raised", stage |-> "hash", inserted |-> NoHash,
                  atVerify |-> <<>>, queried |-> FALSE, callbacks |-> 0]
            ELSE Stored(h, store_transaction(h.t, L))
    IN Hashed(add_hash_to_outputs(sign_inputs(t)))

RECURSIVE SumValues(_)
SumValues(outs) ==
    IF outs = <<>> THEN 0 ELSE Head(outs).value + SumValues(Tail(outs))

\* consolidateOutputs whose Output leaves out the value of the last Output it
\* consumes: what C20 rules out.
ConsolidationTxShort(self, outputs) ==
    [Transaction(DefaultKey, FALSE) EXCEPT
        !.input = [k \in 1..Len(outputs) |->
                     Input(outputs[k].value, outputs[k].transaction,
                           outputs[k].n, self.owner)],
        !.output = << [Output(SumValues(SubSeq(outputs, 1, Len(outputs) - 1)),
                              PublicKey(self.owner))
                         EXCEPT !.n = 1] >>]

\* The Transaction that Transaction.consolidateOutputs builds.
ConsolidationTx(self, outputs) ==
    [Transaction(DefaultKey, FALSE) EXCEPT
        !.input = [k \in 1..Len(outputs) |->
                     Input(outputs[k].value, outputs[k].transaction,
                           outputs[k].n, self.owner)],
        !.output = << [Output(SumValues(outputs), PublicKey(self.owner))
                         EXCEPT !.n = 1] >>]

\* Transaction.consolidateOutputs
consolidateOutputs(self, outputs, L, sent) ==
    finish_transaction(ConsolidationTx(self, outputs), L, TRUE, sent)

\* The selection loop with `val >= target_val` for the test of line 56: it
\* stops at a prefix that only reaches the target.
RECURSIVE SelectInputsAtLeast(_, _, _, _)
SelectInputsAtLeast(outputs, target_val, val, owner) ==
    IF outputs = <<>> THEN [val |-> val, input |-> <<>>]
    ELSE LET o == Head(outputs)
             inp == Input(o.value, o.transaction, o.n, owner)
         IN IF val + o.value >= target_val
            THEN [val |-> val + o.value, input |-> <<inp>>]
            ELSE LET r == SelectInputsAtLeast(Tail(outputs), target_val,
                                              val + o.value, owner)
                 IN [val |-> r.val, input |-> <<inp>> \o r.input]

\* The selection loop of Transaction.add_input: [val, input]
RECURSIVE SelectInputs(_, _, _, _)
SelectInputs(outputs, target_val, val, owner) ==
    IF outputs = <<>> THEN [val |-> val, input |-> <<>>]
    ELSE LET o == Head(outputs)
             inp == Input(o.value, o.transaction, o.n, owner)
         IN IF val + o.value > target_val
            THEN [val |-> val + o.value, input |-> <<inp>>]
            ELSE LET r == SelectInputs(Tail(outputs), target_val,
                                       val + o.value, owner)
                 IN [val |-> r.val, input |-> <<inp>> \o r.input]

\* Transaction.add_input: result is "ok", "Output exceeds input!" or
\* "raised" (consolidateOutputs raised); outputs is what selection ran over.
add_input(t, target_val, L, sent) ==
    LET pub == PublicKey(t.owner)
        Change(diff) == [Output(diff, pub) EXCEPT !.n = Len(t.output) + 1]
        Selected(L1, cons, outputs, sel) ==
            IF sel.val - target_val < 0
            THEN [result |-> "Output exceeds input!",
                  t |-> [t EXCEPT !.input = t.input \o sel.input],
                  unspent |-> L1.unspent, stored |-> L1.stored,
                  consolidated |-> cons, outputs |-> outputs]
            ELSE [result |-> "ok",
                  t |-> [t EXCEPT
                           !.input = t.input \o sel.input,
                           !.output = Append(t.output,
                                             Change(sel.val - target_val))],
                  unspent |-> L1.unspent, stored |-> L1.stored,
                  consolidated |-> cons, outputs |-> outputs]
        Queried(L1, cons, outputs) ==
            Selected(L1, cons, outputs,
                     SelectInputs(outputs, target_val, 0, t.owner))
        Select(L1, cons) ==
            Queried(L1, cons, getUnspentOutputsOf(L1.unspent, pub))
        Consolidated(c) ==
            IF c.result = "raised"
            THEN [result |-> "raised", t |-> t, unspent |-> c.unspent,
                  stored |-> c.stored, consolidated |-> FALSE, outputs |-> <<>>]
            ELSE Select([unspent |-> c.unspent, stored |-> c.stored], TRUE)
        Found(found) ==
            IF Len(found) > 2
            THEN Consolidated(consolidateOutputs(t, found, L, sent))
            ELSE Select(L, FALSE)
    IN Found(getUnspentOutputsOf(L.unspent, pub))

\* Transaction.add_output
add_output(t, output, L, sent) ==
    add_input([t EXCEPT !.output =
                  Append(t.output, [output EXCEPT !.n = Len(t.output) + 1])],
              output.value, L, sent)

\* ------------------------------------------------------------------ state

VARIABLES
    tx,        \* the Transaction objects, by identity
    made,      \* the identities of the objects constructed so far
    unspent,   \* the Ledger's unspent Outputs
    stored,    \* the hashes of the transactions handed to the Ledger
    calls,     \* calls made so far
    budget,    \* calls the callers make in this run
    verdict,   \* what verify() last returned for each object as it is now
    sealed,    \* each object as it was when its hash was set
    last       \* the last call: its arguments, its result, the state before it

vars == <<tx, made, unspent, stored, calls, budget, verdict, sealed, last>>

Ledger == [unspent |-> unspent, stored |-> stored]

NoCall ==
    [op |-> "none", t |-> 0, result |-> "none", txBefore |-> Transaction(DefaultKey, FALSE),
     before |-> <<>>, queried |-> FALSE, callbacks |-> 0,
     digest |-> NoHash, target |-> 0, consolidated |-> FALSE, outputs |-> <<>>,
     bcast |-> "off", stage |-> "none", inserted |-> NoHash, atVerify |-> <<>>,
     storedBefore |-> {}, recipient |-> PublicKey(DefaultKey),
     wire |-> Transaction(DefaultKey, FALSE), withSig |-> FALSE]

Call(op, t) ==
    [NoCall EXCEPT !.op = op, !.t = t, !.txBefore = tx[t], !.before = unspent,
                   !.storedBefore = stored]

\* The Transaction a CoinBase(owner) is: one coinbase Input, one Output.
CoinBaseTx(owner, value, height) ==
    [Transaction(owner, FALSE) EXCEPT
        !.input = << [Input(0, ZeroHash, 0, owner) EXCEPT !.coinbase = height] >>,
        !.output = << [Output(value, PublicKey(owner)) EXCEPT !.n = 1] >>]

\* The Ledger after c = CoinBase(owner); c.finish_transaction() for each of
\* the values, in order.
RECURSIVE Funded(_, _)
Funded(L, values) ==
    LET Finished(r) ==
            Funded([unspent |-> r.unspent, stored |-> r.stored], Tail(values))
    IN IF values = <<>> THEN L
       ELSE Finished(finish_transaction(
                         CoinBaseTx(DefaultKey, Head(values), CoinbaseHeight),
                         L, TRUE, TRUE))

\* The sub-sequences of seq, its order kept.
RECURSIVE SubSeqs(_)
SubSeqs(seq) ==
    IF seq = <<>> THEN {<<>>}
    ELSE LET rest == SubSeqs(Tail(seq))
         IN rest \cup {<<Head(seq)>> \o r : r \in rest}

FundingRuns == {r \in SubSeqs(Funding) : Len(r) <= MaxCoinbase}

InitLedger ==
    /\ tx = [t \in TxIds |-> Transaction(DefaultKey, FALSE)]
    /\ made = {}
    /\ \E run \in FundingRuns :
          \E L \in {Funded([unspent |-> <<>>, stored |-> {}], run)} :
              unspent = L.unspent /\ stored = L.stored
    /\ calls = 0
    /\ verdict = [t \in TxIds |-> "none"]
    /\ sealed = [t \in TxIds |-> Transaction(DefaultKey, FALSE)]
    /\ last = NoCall

Init == InitLedger /\ budget = MaxCalls

\* t = Transaction(owner, callback)
New(t, owner, callback) ==
    /\ t \notin made
    /\ \A u \in TxIds : u < t => u \in made
    /\ made' = made \cup {t}
    /\ tx' = [tx EXCEPT ![t] = Transaction(owner, callback)]
    /\ last' = [Call("new", t) EXCEPT !.result = "ok"]
    /\ UNCHANGED <<unspent, stored, calls, budget, verdict, sealed>>

\* t.add_output(Transaction.Output(value, recipient))
AddOutput(t, value, recipient, sent) ==
    /\ t \in made
    /\ calls < budget
    /\ Len(tx[t].output) + 2 <= MaxOutputs
    /\ \E r \in {add_output(tx[t], Output(value, recipient), Ledger, sent)} :
          /\ tx' = [tx EXCEPT ![t] = r.t]
          /\ unspent' = r.unspent
          /\ stored' = r.stored
          /\ last' = [Call("add_output", t) EXCEPT
                        !.result = r.result, !.target = value,
                        !.recipient = recipient,
                        !.consolidated = r.consolidated, !.outputs = r.outputs]
    /\ verdict' = [verdict EXCEPT ![t] = "none"]
    /\ calls' = calls + 1
    /\ UNCHANGED <<made, budget, sealed>>

\* t.hash_transaction()
HashTransaction(t) ==
    /\ t \in made
    /\ calls < budget
    /\ \E h \in {hash_transaction(tx[t])} :
          /\ tx' = [tx EXCEPT ![t] = h.t]
          /\ last' = [Call("hash_transaction", t) EXCEPT
                        !.result = IF h.ok THEN "ok" ELSE "raised",
                        !.digest = h.digest]
    /\ calls' = calls + 1
    /\ sealed' = IF tx[t].hash = NoHash THEN [sealed EXCEPT ![t] = tx[t]] ELSE sealed
    /\ UNCHANGED <<made, unspent, stored, budget, verdict>>

\* t.finish_transaction(broadcast=bcast)
FinishTransaction(t, bcast, sent) ==
    /\ t \in made
    /\ calls < budget
    /\ bcast \/ ~sent
    /\ \E r \in {finish_transaction(tx[t], Ledger, bcast, sent)} :
          /\ tx' = [tx EXCEPT ![t] = r.t]
          /\ unspent' = r.unspent
          /\ stored' = r.stored
          /\ last' = [Call("finish_transaction", t) EXCEPT
                        !.result = r.result, !.stage = r.stage,
                        !.queried = r.queried, !.callbacks = r.callbacks,
                        !.inserted = r.inserted, !.atVerify = r.atVerify,
                        !.bcast = IF ~bcast \/ r.stage = "hash" THEN "off"
                                  ELSE IF sent THEN "sent" ELSE "failed"]
          /\ verdict' = [verdict EXCEPT ![t] =
                            IF r.stage = "verify" THEN r.result ELSE "none"]
          /\ sealed' = IF tx[t].hash = NoHash /\ r.t.hash # NoHash
                       THEN [sealed EXCEPT ![t] = sign_inputs(tx[t])]
                       ELSE sealed
    /\ calls' = calls + 1
    /\ UNCHANGED <<made, budget>>

\* t.verify()
Verify(t, noSigRaises) ==
    /\ t \in made
    /\ calls < budget
    /\ \E v \in {verify(tx[t], unspent, noSigRaises)} :
          /\ unspent' = v.unspent
          /\ last' = [Call("verify", t) EXCEPT
                        !.result = v.result, !.queried = v.queried,
                        !.callbacks = v.callbacks, !.atVerify = unspent]
          /\ verdict' = [verdict EXCEPT ![t] = v.result]
    /\ calls' = calls + 1
    /\ UNCHANGED <<tx, made, stored, budget, sealed>>

\* Transactions a peer may send: Inputs that spend unspent Outputs, in the
\* Ledger's order, each signed by the Output's owner or by another key pair,
\* or a coinbase Input followed by such Inputs; and one Output.
OtherKey(pubKey) == CHOOSE k \in Keys : PublicKey(k) # pubKey
OwnerKey(pubKey) == CHOOSE k \in Keys : PublicKey(k) = pubKey

WireInput(o, forged) ==
    [Input(o.value % (MaxU8 + 1), o.transaction, o.n, DefaultKey)
        EXCEPT !.signature = Sign(IF forged THEN OtherKey(o.pubKey)
                                  ELSE OwnerKey(o.pubKey), o.transaction)]

WireCoinbase ==
    [Input(0, ZeroHash, 0, DefaultKey)
        EXCEPT !.signature = Sign(DefaultKey, ZeroHash), !.coinbase = CoinbaseHeight]

WireSpends ==
    {[k \in 1..Len(outs) |-> WireInput(outs[k], forged[k])] :
        <<outs, forged>> \in
            {<<r, f>> : r \in {x \in SubSeqs(unspent) : Len(x) \in 1..MaxWireInputs},
                        f \in [1..MaxWireInputs -> BOOLEAN]}}

WireTransactions ==
    {[Transaction(DefaultKey, FALSE) EXCEPT
        !.input = ins,
        !.output = << [Output(20, PublicKey("K2")) EXCEPT !.n = 1] >>] :
        ins \in WireSpends \cup {<<WireCoinbase>>}
                \cup {<<WireCoinbase>> \o w : w \in {x \in WireSpends : Len(x) = 1}}}

\* t.unpack(buf, withSig) on a fresh Transaction, buf the packing
\* wire.pack(withSig) of a Transaction
Unpack(t, wire, withSig) ==
    /\ t \in made
    /\ calls < budget
    /\ tx[t].input = <<>> /\ tx[t].output = <<>>
    /\ Packable(wire, withSig)
    /\ \E r \in {unpack(tx[t], pack(wire, withSig), withSig)} :
          /\ tx' = [tx EXCEPT ![t] = r.t]
          /\ last' = [Call("unpack", t) EXCEPT
                        !.result = IF r.ok THEN "ok" ELSE "raised",
                        !.wire = wire, !.withSig = withSig]
    /\ verdict' = [verdict EXCEPT ![t] = "none"]
    /\ calls' = calls + 1
    /\ UNCHANGED <<made, unspent, stored, budget, sealed>>

\* One Transaction, every call.
Next ==
    \/ \E owner \in Keys, callback \in BOOLEAN : New(1, owner, callback)
    \/ \E value \in TargetValues, k \in Keys, sent \in BOOLEAN :
          AddOutput(1, value, PublicKey(k), sent)
    \/ HashTransaction(1)
    \/ \E bcast \in BOOLEAN, sent \in BOOLEAN : FinishTransaction(1, bcast, sent)
    \/ \E noSigRaises \in BOOLEAN : Verify(1, noSigRaises)
    \/ \E wire \in WireTransactions : Unpack(1, wire, TRUE)

Spec == Init /\ [][Next]_vars

\* Two wallet Transactions built and finished in any interleaving; the first
\* is constructed with a callback.
InitRace == InitLedger /\ budget = MaxRaceCalls

NextRace ==
    \/ \E t \in TxIds, owner \in Keys : New(t, owner, t = 1)
    \/ \E t \in TxIds, value \in TargetValues, k \in Keys :
          AddOutput(t, value, PublicKey(k), TRUE)
    \/ \E t \in TxIds : FinishTransaction(t, TRUE, TRUE)
    \/ \E t \in TxIds, noSigRaises \in BOOLEAN : Verify(t, noSigRaises)

SpecRace == InitRace /\ [][NextRace]_vars

\* The codec alone: Transactions of up to MaxCodecInputs Inputs and
\* MaxCodecOutputs Outputs are packed, with and without signatures, and the
\* packing is unpacked into a fresh Transaction.
SeqsUpTo(S, n) == UNION {[1..k -> S] : k \in 0..n}

CodecHash == Sha256(<<"prev">>)

CodecInputs ==
    LET spend == Input(30, CodecHash, 1, DefaultKey)
        zero == Input(0, ZeroHash, 0, DefaultKey)
    IN {spend,
        [spend EXCEPT !.signature = Sign(DefaultKey, CodecHash)],
        zero,
        [zero EXCEPT !.coinbase = CoinbaseHeight],
        [zero EXCEPT !.signature = Sign(DefaultKey, ZeroHash),
                     !.coinbase = CoinbaseHeight]}

CodecOutputs ==
    {[Output(20, PublicKey("K2")) EXCEPT !.n = 1],
     [Output(300, PublicKey("K1")) EXCEPT !.n = 2]}

CodecTransactions ==
    {[Transaction(DefaultKey, FALSE) EXCEPT !.input = ins, !.output = outs] :
        ins \in SeqsUpTo(CodecInputs, MaxCodecInputs),
        outs \in SeqsUpTo(CodecOutputs, MaxCodecOutputs)}

NextCodec ==
    \/ \E owner \in Keys : New(1, owner, FALSE)
    \/ \E wire \in CodecTransactions, withSig \in BOOLEAN :
          Unpack(1, wire, withSig)

SpecCodec == Init /\ [][NextCodec]_vars

\* ------------------------------------------------------------------ claims

\* Some Input of t names the Output o.
Referenced(t, o) ==
    \E k \in 1..Len(t.input) :
        t.input[k].prev = o.transaction /\ t.input[k].n = o.n

\* The last call ran verify() to its return: t.verify(), or a
\* finish_transaction() that reached its verify step.
VerifyReturned ==
    \/ last.op = "verify"
    \/ last.op = "finish_transaction" /\ last.stage = "verify"

IsCoinbaseFirst(t) == t.input # <<>> /\ t.input[1].prev = ZeroHash

\* C1: when verify() accepts a non-coinbase Transaction, the Outputs that
\* were unspent when it started and that some Input names are no longer
\* unspent, every other Output still is, and nothing else became unspent.
C1_AcceptSpendsReferenced ==
    (VerifyReturned /\ last.result = "accepted" /\ ~IsCoinbaseFirst(tx[last.t]))
    => /\ \A k \in 1..Len(last.atVerify) :
             HasOutput(unspent, last.atVerify[k])
             <=> ~Referenced(tx[last.t], last.atVerify[k])
       /\ \A k \in 1..Len(unspent) : HasOutput(last.atVerify, unspent[k])

\* An accepted non-coinbase Transaction that spent one Output and left another.
C1_Witness ==
    /\ VerifyReturned /\ last.result = "accepted" /\ ~IsCoinbaseFirst(tx[last.t])
    /\ \E k \in 1..Len(last.atVerify) :
          Referenced(tx[last.t], last.atVerify[k])
          /\ ~HasOutput(unspent, last.atVerify[k])
    /\ \E k \in 1..Len(last.atVerify) :
          ~Referenced(tx[last.t], last.atVerify[k])
          /\ HasOutput(unspent, last.atVerify[k])

\* C2: whenever verify() rejects a Transaction, the unspent set is what it
\* was when verify() started.
C2_NoPartialAcceptance ==
    (VerifyReturned /\ last.result = "rejected") => unspent = last.atVerify

\* Two Transactions name the same Output in an Input.
SharesInput(a, b) ==
    \E i \in 1..Len(a.input), j \in 1..Len(b.input) :
        a.input[i].prev = b.input[j].prev /\ a.input[i].n = b.input[j].n

\* C3: of two distinct non-coinbase Transactions with an Input that names
\* the same Output, at most one is accepted by verify().
C3_DoubleSpendDetected ==
    \A a, b \in made :
        (a # b /\ ~IsCoinbaseFirst(tx[a]) /\ ~IsCoinbaseFirst(tx[b])
              /\ SharesInput(tx[a], tx[b]))
        => ~(verdict[a] = "accepted" /\ verdict[b] = "accepted")

\* C4: verify() of a Transaction whose first Input has the all-zero previous
\* hash returns accepted, does not query the unspent Outputs and removes none.
C4_CoinbaseAccepted ==
    (VerifyReturned /\ IsCoinbaseFirst(tx[last.t]))
    => /\ last.result = "accepted"
       /\ ~last.queried
       /\ unspent = last.atVerify

\* A coinbase-first Transaction was accepted although its second Input
\* spends an unspent Output with a signature that does not verify.
C4_Witness ==
    /\ VerifyReturned /\ IsCoinbaseFirst(tx[last.t])
    /\ last.result = "accepted"
    /\ Len(tx[last.t].input) >= 2
    /\ \E k \in 1..Len(unspent) :
          /\ tx[last.t].input[2].prev = unspent[k].transaction
          /\ tx[last.t].input[2].n = unspent[k].n
          /\ ~check_sig(tx[last.t].input[2].signature, unspent[k].pubKey,
                        unspent[k].transaction)

\* C5: after finish_transaction() every Input's signature is its key pair's
\* signature over the hash of the Transaction that contains it.
C5_SignsOwnHash ==
    (last.op = "finish_transaction" /\ last.stage = "verify")
    => \A k \in 1..Len(tx[last.t].input) :
          tx[last.t].input[k].signature
              = Sign(tx[last.t].input[k].owner, tx[last.t].hash)

\* C6: for a Transaction constructed with a callback, a verify() that returns
\* accepted invokes the callback exactly once and one that returns rejected
\* never invokes it.
C6_CallbackOncePerAccept ==
    (VerifyReturned /\ tx[last.t].callback)
    => /\ last.result = "accepted" => last.callbacks = 1
       /\ last.result = "rejected" => last.callbacks = 0

\* The owner's unspent Outputs when the last call, an add_output, started.
OwnerBefore ==
    getUnspentOutputsOf(last.before, PublicKey(last.txBefore.owner))

OwnerNow ==
    getUnspentOutputsOf(unspent, PublicKey(last.txBefore.owner))

PrefixSum(outs, k) == SumValues(SubSeq(outs, 1, k))

\* The length of the shortest prefix of outs whose values add up to more
\* than target, or the length of outs when there is none.
TakeCount(outs, target) ==
    IF \E k \in 1..Len(outs) : PrefixSum(outs, k) > target
    THEN CHOOSE k \in 1..Len(outs) :
            /\ PrefixSum(outs, k) > target
            /\ \A j \in 1..(k - 1) : PrefixSum(outs, j) <= target
    ELSE Len(outs)

\* The Inputs that spend the first k of outs for owner.
InputsFor(outs, k, owner) ==
    [j \in 1..k |-> Input(outs[j].value, outs[j].transaction, outs[j].n, owner)]

TargetOutput ==
    [value |-> last.target, pubKey |-> last.recipient, transaction |-> NoHash,
     n |-> Len(last.txBefore.output) + 1]

ChangeOutput(value) ==
    [value |-> value, pubKey |-> PublicKey(last.txBefore.owner),
     transaction |-> NoHash, n |-> Len(last.txBefore.output) + 2]

Taken == TakeCount(OwnerBefore, last.target)

\* The Inputs of the last add_output are those before it, then the greedy
\* prefix of the owner's unspent Outputs.
GreedyInputs ==
    tx[last.t].input
        = last.txBefore.input
          \o InputsFor(OwnerBefore, Taken, last.txBefore.owner)

\* C7 as stated: for an owner with at most two unspent Outputs, add_output
\* appends the greedy prefix as Inputs and, after the target Output, one
\* change Output of value accumulated minus target.
C7_GreedySelectionAlwaysChange ==
    (last.op = "add_output" /\ Len(OwnerBefore) <= 2)
    => /\ GreedyInputs
       /\ tx[last.t].output
            = last.txBefore.output
              \o <<TargetOutput,
                   ChangeOutput(PrefixSum(OwnerBefore, Taken) - last.target)>>

\* C7, amended: for an owner with at most two unspent Outputs, add_output
\* appends the greedy prefix as Inputs; when the accumulated value is at
\* least the target it appends, after the target Output, one change Output
\* of value accumulated minus target, and otherwise it raises with the target
\* Output and the Inputs appended and no change Output.
C7_GreedySelection ==
    (last.op = "add_output" /\ Len(OwnerBefore) <= 2)
    => /\ GreedyInputs
       /\ IF PrefixSum(OwnerBefore, Taken) >= last.target
          THEN /\ last.result = "ok"
               /\ tx[last.t].output
                    = last.txBefore.output
                      \o <<TargetOutput,
                           ChangeOutput(PrefixSum(OwnerBefore, Taken) - last.target)>>
          ELSE /\ last.result = "Output exceeds input!"
               /\ tx[last.t].output = last.txBefore.output \o <<TargetOutput>>

\* Unspent [30, 50] and target 40: both consumed, change 40.
C7_Witness ==
    /\ last.op = "add_output" /\ last.target = 40
    /\ Len(OwnerBefore) = 2
    /\ OwnerBefore[1].value = 30 /\ OwnerBefore[2].value = 50
    /\ Len(tx[last.t].input) = Len(last.txBefore.input) + 2
    /\ tx[last.t].output[Len(tx[last.t].output)].value = 40

\* C8: add_output fails, with 'Output exceeds input!', exactly when the
\* owner's unspent Outputs add up to less than the Output's value, and
\* succeeds otherwise.
C8_FailsIffInsufficient ==
    last.op = "add_output"
    => IF SumValues(OwnerBefore) < last.target
       THEN last.result = "Output exceeds input!"
       ELSE last.result = "ok"

\* C9: an add_output that finds more than two unspent Outputs of the owner
\* removes them all and leaves exactly one, the consolidated Output, which
\* is what selection runs over; one that finds two or fewer creates no
\* consolidation Transaction and leaves the Ledger alone.
C9_ConsolidationTrigger ==
    last.op = "add_output"
    => IF Len(OwnerBefore) > 2
       THEN /\ last.consolidated
            /\ \A k \in 1..Len(OwnerBefore) : ~HasOutput(unspent, OwnerBefore[k])
            /\ Len(OwnerNow) = 1
            /\ OwnerNow[1].value = SumValues(OwnerBefore)
            /\ last.outputs = OwnerNow
       ELSE /\ ~last.consolidated
            /\ unspent = last.before
            /\ stored = last.storedBefore

\* C10: a hash once set never changes, every hash_transaction() call after
\* it returns it, and a digest hash_transaction() returns is the hash of the
\* packing, without signatures and without the hash prefix, of the
\* Transaction as it was when the hash was set.
C10_HashStable ==
    /\ (last.op \in {"add_output", "hash_transaction", "finish_transaction",
                     "verify", "unpack"}
          /\ last.txBefore.hash # NoHash)
       => /\ tx[last.t].hash = last.txBefore.hash
          /\ last.op = "hash_transaction"
               => last.result = "ok" /\ last.digest = last.txBefore.hash
    /\ (last.op = "hash_transaction" /\ last.result = "ok")
       => /\ Packable(sealed[last.t], FALSE)
          /\ last.digest = Sha256(pack(sealed[last.t], FALSE))

\* The last call, a finish_transaction(), run again from the state it started
\* in with a broadcast that succeeds.
BroadcastSucceeds ==
    finish_transaction(last.txBefore,
                       [unspent |-> last.before, stored |-> last.storedBefore],
                       TRUE, TRUE)

\* C11: when the broadcast of finish_transaction(broadcast=True) raises, the
\* call still returns verify()'s result, the Transaction was handed to the
\* Ledger under its hash before the attempt and stays there, the Inputs keep
\* their signatures and the Outputs their hash, and the Ledger insert and the
\* verify step come out as in the run whose broadcast succeeds.
C11_BroadcastBestEffort ==
    (last.op = "finish_transaction" /\ last.bcast = "failed")
    => /\ last.stage = "verify"
       /\ last.result \in {"accepted", "rejected", "raised"}
       /\ last.inserted \in stored
       /\ tx[last.t].input = sign_inputs(last.txBefore).input
       /\ tx[last.t].output = add_hash_to_outputs(last.txBefore).t.output
       /\ tx[last.t].hash = add_hash_to_outputs(last.txBefore).t.hash
       /\ unspent = BroadcastSucceeds.unspent
       /\ stored = BroadcastSucceeds.stored
       /\ last.atVerify = BroadcastSucceeds.atVerify
       /\ last.inserted = BroadcastSucceeds.inserted
       /\ last.result = BroadcastSucceeds.result
       /\ last.callbacks = BroadcastSucceeds.callbacks

\* A finish_transaction() whose broadcast raised, on a Transaction that
\* spends an Output: stored, signed, verified and accepted.
C11_Witness ==
    /\ last.op = "finish_transaction" /\ last.bcast = "failed"
    /\ last.result = "accepted"
    /\ last.txBefore.input # <<>> /\ last.txBefore.output # <<>>
    /\ last.inserted # NoHash /\ last.inserted \in stored
    /\ unspent # last.atVerify
    /\ \A k \in 1..Len(tx[last.t].input) : tx[last.t].input[k].signature # NoSig

\* t with the signature of its k-th Input replaced by bytes that are no
\* signature of any key pair.
ForgedAt(t, k) == [t EXCEPT !.input[k].signature = Garbled("sig")]

\* The k-th Input of t names an unspent Output.
Spends(t, k) ==
    \E j \in 1..Len(unspent) :
        t.input[k].prev = unspent[j].transaction /\ t.input[k].n = unspent[j].n

\* C12: a Transaction verify() would accept is rejected by verify() once the
\* signature of any one of its Inputs that spends an unspent Output is
\* replaced by a value that is not a valid signature of that Output's owner.
C12_SignatureRejection ==
    \A t \in made :
        (tx[t].input # <<>> /\ verify(tx[t], unspent, FALSE).result = "accepted")
        => \A k \in 1..Len(tx[t].input) :
              Spends(tx[t], k)
              => verify(ForgedAt(tx[t], k), unspent, FALSE).result = "rejected"

\* The fields of t that are part of its packing.
WireFields(t, withSig) ==
    [input |-> [k \in 1..Len(t.input) |->
                  [value |-> t.input[k].value, prev |-> t.input[k].prev,
                   n |-> t.input[k].n,
                   signature |-> IF withSig THEN t.input[k].signature ELSE NoSig,
                   coinbase |-> t.input[k].coinbase]],
     output |-> [k \in 1..Len(t.output) |->
                  [value |-> t.output[k].value, n |-> t.output[k].n,
                   pubKey |-> t.output[k].pubKey]]]

\* C13: unpack(pack(tx, withSig), withSig) succeeds and yields the Inputs and
\* Outputs of tx, in number and order, with the same wire-format fields, for
\* every Transaction that can be packed, also one whose Input has the
\* all-zero previous hash, with or without a coinbase height.
C13_CodecRoundTrip ==
    last.op = "unpack"
    => /\ last.result = "ok"
       /\ WireFields(tx[last.t], last.withSig)
            = WireFields(last.wire, last.withSig)

\* The last call, a finish_transaction(), returned.
FinishReturned ==
    /\ last.op = "finish_transaction"
    /\ last.stage = "verify"
    /\ last.result \in {"accepted", "rejected"}

\* C14: an Output's transaction hash is unset when the Output is created and
\* is set by no call but finish_transaction(), through add_hash_to_outputs();
\* when finish_transaction() returns, every Output of the Transaction, the
\* change Outputs too, carries the Transaction's hash, and that is the hash
\* under which the Transaction was handed to the Ledger.
C14_Sealing ==
    /\ last.op \in {"new", "add_output", "hash_transaction", "verify", "unpack"}
       => \A k \in 1..Len(tx[last.t].output) :
             tx[last.t].output[k].transaction
               = IF last.op = "unpack" \/ k > Len(last.txBefore.output)
                 THEN NoHash
                 ELSE last.txBefore.output[k].transaction
    /\ FinishReturned
       => \A k \in 1..Len(tx[last.t].output) :
             /\ tx[last.t].output[k].transaction # NoHash
             /\ tx[last.t].output[k].transaction = tx[last.t].hash
             /\ tx[last.t].hash = last.inserted
             /\ last.inserted \in stored

\* finish_transaction() returned for a Transaction built by add_output(): the
\* target Output and the change Output carry the hash it is stored under.
C14_Witness ==
    /\ FinishReturned
    /\ Len(tx[last.t].output) >= 2
    /\ \A k \in 1..Len(last.txBefore.output) :
          last.txBefore.output[k].transaction = NoHash
    /\ \A k \in 1..Len(tx[last.t].output) :
          tx[last.t].output[k].transaction = last.inserted
    /\ tx[last.t].output[2].pubKey = PublicKey(tx[last.t].owner)
    /\ last.inserted # NoHash /\ last.inserted \in stored

\* No Input of t names an Output of outs.
Dangling(t, outs) ==
    \A k \in 1..Len(outs) : ~Referenced(t, outs[k])

\* C15: verify() of a Transaction whose first Input is not a coinbase Input
\* and none of whose Inputs names an unspent Output returns accepted, calls
\* the callback when there is one, and leaves the unspent Outputs as they
\* were, whatever the signatures of the Inputs are.
C15_DanglingAccepted ==
    (VerifyReturned /\ tx[last.t].input # <<>> /\ ~IsCoinbaseFirst(tx[last.t])
        /\ Dangling(tx[last.t], last.atVerify))
    => /\ last.result = "accepted"
       /\ unspent = last.atVerify
       /\ last.callbacks = IF tx[last.t].callback THEN 1 ELSE 0

\* verify() accepted a Transaction with a callback whose only Input is not
\* signed and names an Output that another Transaction has spent.
C15_Witness ==
    /\ last.op = "verify" /\ last.result = "accepted"
    /\ ~IsCoinbaseFirst(tx[last.t])
    /\ Dangling(tx[last.t], last.atVerify)
    /\ \E k \in 1..Len(tx[last.t].input) : tx[last.t].input[k].signature = NoSig
    /\ tx[last.t].callback /\ last.callbacks = 1
    /\ unspent = last.atVerify

\* C16: every Input that add_output() creates has a value of 0 to 255, so
\* that a Transaction built by a successful add_output() can be packed, and
\* with that hashed.
C16_InputValueRange ==
    last.op = "add_output"
    => /\ \A k \in 1..Len(tx[last.t].input) :
             tx[last.t].input[k].value \in 0..MaxU8
       /\ last.result = "ok" => Packable(tx[last.t], FALSE)

\* t is in the Building state: no Input is signed, no hash is recorded in an
\* Output, as finish_transaction() and unpack(withSig) would leave them.
Building(t) ==
    /\ \A k \in 1..Len(t.input) : t.input[k].signature = NoSig
    /\ \A k \in 1..Len(t.output) : t.output[k].transaction = NoHash

\* No add_output() on the Building Transaction t has failed: a failed one
\* leaves a target Output that the Inputs do not cover.
NoneFailed(t) == SumValues(t.input) = SumValues(t.output)

DistinctInputs(t) ==
    \A i, j \in 1..Len(t.input) :
        (t.input[i].prev = t.input[j].prev /\ t.input[i].n = t.input[j].n)
        => i = j

\* C17: after a sequence of successful add_output() calls on a Transaction
\* in the Building state, no two of its Inputs name the same Output.
C17_DistinctInputs ==
    (last.op = "add_output" /\ last.result = "ok"
        /\ Building(last.txBefore) /\ NoneFailed(last.txBefore))
    => DistinctInputs(tx[last.t])

\* C18: an add_output() that fails because the owner's unspent Outputs do
\* not cover the Output's value leaves the Transaction's Inputs and Outputs
\* as they were before the call.
C18_FailureAtomicity ==
    (last.op = "add_output" /\ last.result = "Output exceeds input!")
    => /\ tx[last.t].input = last.txBefore.input
       /\ tx[last.t].output = last.txBefore.output

\* C19: a Transaction whose hash is set can be packed, and its hash is the
\* digest of its packing without signatures as it is now; a
\* hash_transaction() that raises leaves the hash unset.
C19_HashCoherence ==
    /\ \A t \in made :
          tx[t].hash # NoHash
          => /\ Packable(tx[t], FALSE)
             /\ tx[t].hash = Sha256(pack(tx[t], FALSE))
    /\ (last.op = "hash_transaction" /\ last.result = "raised")
       => tx[last.t].hash = NoHash

\* The consolidation Transaction of the last call, an add_output() that found
\* more than two unspent Outputs of the owner.
Consolidation == ConsolidationTx(last.txBefore, OwnerBefore)

\* C20: a successful add_output() adds as much Input value as Output value
\* (the target Output plus the change Output), so that a Transaction built by
\* successful add_output() calls alone has Inputs and Outputs of equal sums;
\* the consolidation Transaction has Inputs for all the unspent Outputs of the
\* owner and one Output of their sum, which is the Output it leaves unspent.
C20_ValueConservation ==
    /\ (last.op = "add_output" /\ last.result = "ok")
       => /\ SumValues(tx[last.t].input) - SumValues(last.txBefore.input)
               = SumValues(tx[last.t].output) - SumValues(last.txBefore.output)
          /\ (Building(last.txBefore) /\ NoneFailed(last.txBefore))
               => NoneFailed(tx[last.t])
    /\ (last.op = "add_output" /\ Len(OwnerBefore) > 2)
       => /\ Len(Consolidation.input) = Len(OwnerBefore)
          /\ Len(Consolidation.output) = 1
          /\ SumValues(Consolidation.input) = SumValues(Consolidation.output)
          /\ Consolidation.output[1].value = SumValues(OwnerBefore)
          /\ last.consolidated
               => /\ Len(last.outputs) = 1
                  /\ last.outputs[1].value = SumValues(OwnerBefore)
                  /\ last.outputs[1].pubKey = PublicKey(last.txBefore.owner)

\* A successful add_output() with a consolidation of three Outputs and a
\* change Output of positive value.
C20_Witness ==
    /\ last.op = "add_output" /\ last.result = "ok" /\ last.consolidated
    /\ Len(OwnerBefore) = 3
    /\ Len(tx[last.t].input) = 1
    /\ tx[last.t].input[1].value = SumValues(OwnerBefore)
    /\ tx[last.t].output[Len(tx[last.t].output)].value
         = SumValues(OwnerBefore) - last.target
    /\ SumValues(OwnerBefore) > last.target

====
